---- MODULE Spec2Model ----
(***************************************************************************)
(* State-machine model of src/index.ts: the streaming decoder of           *)
(* FireworksClient.streamChat (line buffering, SSE line inspection, the    *)
(* tool-call accumulator) and the conversation loop of CLI.run /           *)
(* CLI.streamResponse over ChatHistory.                                    *)
(*                                                                         *)
(* Text is modelled by strings and joined with \o.  The bytes of a         *)
(* response body are modelled as a sequence of units (short strings): the  *)
(* newline is one unit, the "data: " marker is two units, the "[DONE]"     *)
(* token is two units and a JSON payload is the units "{", body, "}".      *)
(* Optional JavaScript values (undefined / null against a value) are       *)
(* modelled as sequences of length 0 or 1.                                 *)
(***************************************************************************)
EXTENDS Integers, Sequences, FiniteSets, TLC

\* ------------------------------------------------------------------------
\* Bounds
\* ------------------------------------------------------------------------
MaxLines == 3
MaxChunk == 3
MaxRequests == 3

\* ------------------------------------------------------------------------
\* Optional values
\* ------------------------------------------------------------------------
None == <<>>
Some(x) == <<x>>

\* ------------------------------------------------------------------------
\* Units of a response body
\* ------------------------------------------------------------------------
NL == "\n"
DataPrefix == <<"data", ": ">>
DoneToken == <<"[DO", "NE]">>

\* A tool-call delta of choices[0].delta.tool_calls: index and id are
\* optional; an absent function, name or arguments is the empty string (the
\* code tests them for truthiness only).
Delta(index, id, name, arguments) ==
  [index |-> index, id |-> id, name |-> name, arguments |-> arguments]

\* The JSON documents the modelled server can send, by the unit that stands
\* for their text between the braces.
Bodies ==
  [b \in {"hi", "there", "blank", "open0", "argA0", "argB0", "nul0", "anon0",
          "open1", "noid2", "both10", "noidx"} |->
    CASE b = "hi" -> [content |-> "Hi", tool_calls |-> <<>>]
      [] b = "there" -> [content |-> " there", tool_calls |-> <<>>]
      [] b = "blank" -> [content |-> "", tool_calls |-> <<>>]
      [] b = "open0" -> [content |-> "",
            tool_calls |-> <<Delta(Some(0), Some("c1"), "web_search", "")>>]
      [] b = "argA0" -> [content |-> "",
            tool_calls |-> <<Delta(Some(0), None, "", "{\"query\":")>>]
      [] b = "argB0" -> [content |-> "",
            tool_calls |-> <<Delta(Some(0), None, "", "\"x\"}")>>]
      [] b = "nul0" -> [content |-> "",
            tool_calls |-> <<Delta(Some(0), Some("c1"), "web_search", "null")>>]
      [] b = "anon0" -> [content |-> "",
            tool_calls |-> <<Delta(Some(0), Some("c1"), "", "{}")>>]
      [] b = "open1" -> [content |-> "",
            tool_calls |-> <<Delta(Some(1), Some("c2"), "lookup", "{}")>>]
      [] b = "noid2" -> [content |-> "",
            tool_calls |-> <<Delta(Some(2), None, "lookup", "{}")>>]
      [] b = "both10" -> [content |-> "Hi",
            tool_calls |-> <<Delta(Some(1), Some("c2"), "lookup", "{"),
                             Delta(Some(0), Some("c1"), "web_search", ""),
                             Delta(Some(1), None, "", "}")>>]
      [] b = "noidx" -> [content |-> " there",
            tool_calls |-> <<Delta(None, Some("c3"), "web_search", "{}")>>]]

\* JSON.parse(data) followed by json.choices?.[0]?.delta: the text parses
\* when it is a brace, a known body and a brace ("{}" parses to an object
\* without choices); anything else throws.
JSONParse(data) ==
  IF Len(data) = 3 /\ data[1] = "{" /\ data[3] = "}" /\ data[2] \in DOMAIN Bodies
  THEN [ok |-> TRUE, content |-> Bodies[data[2]].content,
        tool_calls |-> Bodies[data[2]].tool_calls]
  ELSE IF data = <<"{", "}">>
  THEN [ok |-> TRUE, content |-> "", tool_calls |-> <<>>]
  ELSE [ok |-> FALSE, content |-> "", tool_calls |-> <<>>]

\* ------------------------------------------------------------------------
\* Tool-call accumulator (a Map<number, Partial<ToolCall>>, kept in
\* insertion order as a JavaScript Map is)
\* ------------------------------------------------------------------------
HasIndex(acc, idx) == \E i \in 1..Len(acc) : acc[i].index = idx

PosOf(acc, idx) == CHOOSE i \in 1..Len(acc) : acc[i].index = idx

Truthy(opt) == opt # None /\ opt[1] # ""

\* MergeDelta as it would be if an argument delta replaced the accumulated
\* text.
MergeDeltaOverwrite(acc, d) ==
  IF d.index = None THEN acc
  ELSE
    LET idx == d.index[1]
        acc1 == IF HasIndex(acc, idx) THEN acc
                ELSE Append(acc, [index |-> idx, id |-> d.id,
                                  name |-> "", arguments |-> ""])
        i == PosOf(acc1, idx)
        tc0 == acc1[i]
        tc1 == IF Truthy(d.id) THEN [tc0 EXCEPT !.id = d.id] ELSE tc0
        tc2 == IF d.name # "" THEN [tc1 EXCEPT !.name = d.name] ELSE tc1
        tc3 == IF d.arguments # ""
               THEN [tc2 EXCEPT !.arguments = d.arguments]
               ELSE tc2
    IN [acc1 EXCEPT ![i] = tc3]

MergeDelta(acc, d) ==
  IF d.index = None THEN acc
  ELSE
    LET idx == d.index[1]
        acc1 == IF HasIndex(acc, idx) THEN acc
                ELSE Append(acc, [index |-> idx, id |-> d.id,
                                  name |-> "", arguments |-> ""])
        i == PosOf(acc1, idx)
        tc0 == acc1[i]
        tc1 == IF Truthy(d.id) THEN [tc0 EXCEPT !.id = d.id] ELSE tc0
        tc2 == IF d.name # "" THEN [tc1 EXCEPT !.name = d.name] ELSE tc1
        tc3 == IF d.arguments # ""
               THEN [tc2 EXCEPT !.arguments = tc2.arguments \o d.arguments]
               ELSE tc2
    IN [acc1 EXCEPT ![i] = tc3]

RECURSIVE ApplyDeltas(_, _)
ApplyDeltas(acc, ds) ==
  IF ds = <<>> THEN acc
  ELSE ApplyDeltas(MergeDelta(acc, Head(ds)), Tail(ds))

\* The filter of the materialization: id, function, function.name and
\* function.arguments are not undefined.  The record is created with
\* function: { name: "", arguments: "" }, so only the id can be undefined.
IsComplete(tc) == tc.id # None

ToolCallOf(tc) ==
  [id |-> tc.id[1], type |-> "function",
   function |-> [name |-> tc.name, arguments |-> tc.arguments]]

RECURSIVE CompleteToolCalls(_)
CompleteToolCalls(acc) ==
  IF acc = <<>> THEN <<>>
  ELSE IF IsComplete(Head(acc))
       THEN <<ToolCallOf(Head(acc))>> \o CompleteToolCalls(Tail(acc))
       ELSE CompleteToolCalls(Tail(acc))

\* ------------------------------------------------------------------------
\* Events yielded by streamChat
\* ------------------------------------------------------------------------
TextEvent(s) == [type |-> "text", text |-> s, toolCalls |-> <<>>]

BatchEvent(tcs) == [type |-> "toolCalls", text |-> "", toolCalls |-> tcs]

YieldBatch(acc) ==
  IF Len(acc) > 0 /\ Len(CompleteToolCalls(acc)) > 0
  THEN <<BatchEvent(CompleteToolCalls(acc))>>
  ELSE <<>>

\* ------------------------------------------------------------------------
\* Line buffering and line inspection
\* ------------------------------------------------------------------------
RECURSIVE SplitLines(_)
SplitLines(s) ==
  IF \A i \in 1..Len(s) : s[i] # NL THEN <<s>>
  ELSE LET k == CHOOSE i \in 1..Len(s) :
                  s[i] = NL /\ \A j \in 1..(i - 1) : s[j] # NL
       IN <<SubSeq(s, 1, k - 1)>> \o SplitLines(SubSeq(s, k + 1, Len(s)))

IsBlank(line) == \A i \in 1..Len(line) : line[i] = " "

StartsWithData(line) ==
  Len(line) >= 2 /\ SubSeq(line, 1, 2) = DataPrefix

\* ProcessLine as it would be if the accumulated tool calls were yielded as
\* soon as a line brought tool-call deltas.
ProcessLineYieldsEarly(line, d) ==
  IF IsBlank(line) THEN d
  ELSE IF ~StartsWithData(line) THEN d
  ELSE
    LET data == SubSeq(line, 3, Len(line)) IN
    IF data = DoneToken
    THEN [d EXCEPT !.out = d.out \o YieldBatch(d.acc), !.done = TRUE]
    ELSE
      LET json == JSONParse(data) IN
      IF ~json.ok THEN d
      ELSE [acc |-> ApplyDeltas(d.acc, json.tool_calls),
            out |-> (IF json.tool_calls # <<>>
                     THEN d.out \o YieldBatch(ApplyDeltas(d.acc, json.tool_calls))
                     ELSE d.out)
                    \o (IF json.content # ""
                        THEN <<TextEvent(json.content)>>
                        ELSE <<>>),
            done |-> FALSE]

\* ProcessLine as it would be if the termination token yielded the batch but
\* did not return: the lines after it are processed and reading goes on.
ProcessLineDoneContinues(line, d) ==
  IF IsBlank(line) THEN d
  ELSE IF ~StartsWithData(line) THEN d
  ELSE
    LET data == SubSeq(line, 3, Len(line)) IN
    IF data = DoneToken
    THEN [d EXCEPT !.out = d.out \o YieldBatch(d.acc)]
    ELSE
      LET json == JSONParse(data) IN
      IF ~json.ok THEN d
      ELSE [acc |-> ApplyDeltas(d.acc, json.tool_calls),
            out |-> IF json.content # ""
                    THEN Append(d.out, TextEvent(json.content))
                    ELSE d.out,
            done |-> FALSE]

\* ProcessLine as it would be if a payload that does not parse ended the
\* sequence.
ProcessLineStopsOnBadJSON(line, d) ==
  IF IsBlank(line) THEN d
  ELSE IF ~StartsWithData(line) THEN d
  ELSE
    LET data == SubSeq(line, 3, Len(line)) IN
    IF data = DoneToken
    THEN [d EXCEPT !.out = d.out \o YieldBatch(d.acc), !.done = TRUE]
    ELSE
      LET json == JSONParse(data) IN
      IF ~json.ok THEN [d EXCEPT !.done = TRUE]
      ELSE [acc |-> ApplyDeltas(d.acc, json.tool_calls),
            out |-> IF json.content # ""
                    THEN Append(d.out, TextEvent(json.content))
                    ELSE d.out,
            done |-> FALSE]

\* One iteration of the loop over the complete lines of a chunk.
\* d = [acc, out, done]: the accumulator, the events yielded so far and
\* whether the generator has returned.
ProcessLine(line, d) ==
  IF IsBlank(line) THEN d
  ELSE IF ~StartsWithData(line) THEN d
  ELSE
    LET data == SubSeq(line, 3, Len(line)) IN
    IF data = DoneToken
    THEN [d EXCEPT !.out = d.out \o YieldBatch(d.acc), !.done = TRUE]
    ELSE
      LET json == JSONParse(data) IN
      IF ~json.ok THEN d
      ELSE [acc |-> ApplyDeltas(d.acc, json.tool_calls),
            out |-> IF json.content # ""
                    THEN Append(d.out, TextEvent(json.content))
                    ELSE d.out,
            done |-> FALSE]

RECURSIVE ProcessLines(_, _)
ProcessLines(lines, d) ==
  IF lines = <<>> \/ d.done THEN d
  ELSE ProcessLines(Tail(lines), ProcessLine(Head(lines), d))

\* Carry as it would be if the buffer were emptied after every chunk.
CarryDropped(lines) == <<>>

\* The carried-over tail of the buffer: lines.pop() || "".
Carry(lines) == lines[Len(lines)]

\* One iteration of the read loop on a chunk that was delivered.
\* s = [buffer, acc, out, done].
DecodeChunk(s, chunk) ==
  LET lines == SplitLines(s.buffer \o chunk)
      r == ProcessLines(SubSeq(lines, 1, Len(lines) - 1),
                        [acc |-> s.acc, out |-> s.out, done |-> FALSE])
  IN [buffer |-> Carry(lines), acc |-> r.acc, out |-> r.out, done |-> r.done]

\* DecodeClose as it would be if the rest of the buffer were decoded as a
\* last line when the transport closes.
DecodeCloseFlushesBuffer(s) ==
  LET r == ProcessLine(s.buffer, [acc |-> s.acc, out |-> s.out, done |-> FALSE])
  IN IF r.done THEN [buffer |-> <<>>, acc |-> r.acc, out |-> r.out, done |-> TRUE]
     ELSE [buffer |-> <<>>, acc |-> r.acc,
           out |-> r.out \o YieldBatch(r.acc), done |-> TRUE]

\* The read loop on done = true: break, then yield what was accumulated.
DecodeClose(s) ==
  [s EXCEPT !.out = s.out \o YieldBatch(s.acc), !.done = TRUE]

DecoderStart == [buffer |-> <<>>, acc |-> <<>>, out |-> <<>>, done |-> FALSE]

\* ------------------------------------------------------------------------
\* Response bodies of the modelled server
\* ------------------------------------------------------------------------
DataLine(b) == DataPrefix \o <<"{", b, "}">>

DoneLine == DataPrefix \o DoneToken

\* A data line whose payload is cut short (not JSON).
BadLine == DataPrefix \o <<"{", "hi">>

\* A line without the "data: " marker.
OtherLine == <<"data", "{", "hi", "}">>

BlankLine == <<" ">>

RECURSIVE Flatten(_)
Flatten(ls) ==
  IF ls = <<>> THEN <<>> ELSE Head(ls) \o <<NL>> \o Flatten(Tail(ls))

\* The units of a body: its newline-terminated lines, then a trailing
\* fragment that no newline ends.
BodyUnits(ls, tl) == Flatten(ls) \o tl

DecoderLines ==
  {DataLine("hi"), DataLine("noidx"), DataLine("open0"), DataLine("argA0"),
   DataLine("argB0"), DataLine("anon0"), DataLine("both10"),
   DoneLine, BadLine, BlankLine}

DecoderTails == {<<>>, DataLine("hi"), DoneLine}

DecoderStreams == UNION {[1..n -> DecoderLines] : n \in 0..MaxLines}

PlainStream == <<DataLine("hi"), <<>>, DataLine("there"), <<>>, DoneLine>>
EmptyStream == <<OtherLine, BadLine>>
SearchStream == <<DataLine("open0"), DataLine("argA0"), DataLine("argB0"), DoneLine>>
NullArgsStream == <<DataLine("nul0")>>
TwoToolsStream == <<DataLine("noid2"), DataLine("both10")>>
NamelessStream == <<DataLine("anon0"), DoneLine>>

TextStreams == {PlainStream, EmptyStream}
ToolStreams == {SearchStream, NullArgsStream, TwoToolsStream, NamelessStream}

\* ------------------------------------------------------------------------
\* ChatHistory
\* ------------------------------------------------------------------------
addMessage(messages, role, content, tcs, toolCallId, name) ==
  Append(messages,
         [role |-> role, content |-> content, tool_calls |-> tcs,
          tool_call_id |-> IF Truthy(toolCallId) THEN toolCallId ELSE None,
          name |-> IF Truthy(name) THEN name ELSE None])

\* fullResponse || null
OrNull(s) == IF s = "" THEN None ELSE Some(s)

\* ------------------------------------------------------------------------
\* Lines typed by the user
\* ------------------------------------------------------------------------
RECURSIVE TrimStart(_)
TrimStart(s) ==
  IF s # <<>> /\ Head(s) = " " THEN TrimStart(Tail(s)) ELSE s

RECURSIVE TrimEnd(_)
TrimEnd(s) ==
  IF s # <<>> /\ s[Len(s)] = " " THEN TrimEnd(SubSeq(s, 1, Len(s) - 1)) ELSE s

Trim(s) == TrimEnd(TrimStart(s))

RECURSIVE Join(_)
Join(s) == IF s = <<>> THEN "" ELSE Head(s) \o Join(Tail(s))

StartsWithSlash(s) == s # <<>> /\ Head(s) = "/"

TextLines == {<<"hello">>, <<" ", "hello", " ">>}

InputLines ==
  TextLines \cup
  {<<>>, <<" ">>, <<"/", "clear">>, <<"/", "help">>, <<"/", "exit">>,
   <<"/", "quit">>, <<"/", "foo">>, <<" ", "/", "clear", " ">>}

\* ------------------------------------------------------------------------
\* Tool execution
\* ------------------------------------------------------------------------
\* JSON.parse(toolCall.function.arguments), with the fallback of the catch.
ParseArguments(s) ==
  IF s = "{\"query\":\"x\"}" THEN [kind |-> "object", query |-> Some("x")]
  ELSE IF s = "{}" THEN [kind |-> "object", query |-> None]
  ELSE IF s = "null" THEN [kind |-> "null", query |-> None]
  ELSE [kind |-> "object", query |-> Some(s)]

\* What webSearch can resolve to; it catches its own failures.
WebSearchResults == {"Search results", "Error performing web search"}

APIError == "API Error"
NoBodyError == "No response body"
ReadFailure == "read failed"
NullArgsError == "TypeError"

\* ------------------------------------------------------------------------
\* State
\* ------------------------------------------------------------------------
VARIABLES
  state,                \* position of CLI.run / CLI.streamResponse
  input,                \* the trimmed line returned by getUserInput
  history,              \* ChatHistory.messages
  rlPaused,             \* readline paused
  depth,                \* nesting of streamResponse calls
  fullResponse,         \* locals of the running streamResponse
  toolCalls,
  hasToolCalls,
  toolIdx,              \* position of the loop over toolCalls
  toolInFlight,         \* the query of the awaited webSearch, if any
  requestMessages,      \* the messages sent with the current request
  requests,             \* completion requests issued so far
  stream,               \* the newline-terminated lines of the response body
  tail,                 \* its trailing unterminated fragment
  pos,                  \* units delivered by reader.read() so far
  buffer,               \* locals of the running streamChat
  accumulatedToolCalls,
  events,               \* what streamChat has yielded
  readerLocked,
  lastError,            \* the error reported by the catch of streamResponse
  turnBase              \* the history when the current line was read

vars ==
  <<state, input, history, rlPaused, depth, fullResponse, toolCalls,
    hasToolCalls, toolIdx, toolInFlight, requestMessages, requests, stream,
    tail, pos, buffer, accumulatedToolCalls, events, readerLocked, lastError,
    turnBase>>

cliVars ==
  <<input, history, rlPaused, depth, toolIdx, toolInFlight, requestMessages,
    requests, lastError, turnBase>>

localVars == <<fullResponse, toolCalls, hasToolCalls>>

decoderVars ==
  <<stream, tail, pos, buffer, accumulatedToolCalls, events, readerLocked>>

Body == BodyUnits(stream, tail)

\* ------------------------------------------------------------------------
\* Initial states
\* ------------------------------------------------------------------------
NoStream ==
  /\ stream' = <<>>
  /\ tail' = <<>>
  /\ pos' = 0
  /\ buffer' = <<>>
  /\ accumulatedToolCalls' = <<>>
  /\ events' = <<>>
  /\ readerLocked' = FALSE

NoLocals ==
  /\ fullResponse' = ""
  /\ toolCalls' = <<>>
  /\ hasToolCalls' = FALSE

Init ==
  /\ state = "AwaitingInput"
  /\ input = <<>>
  /\ history = <<>>
  /\ rlPaused = FALSE
  /\ depth = 0
  /\ fullResponse = ""
  /\ toolCalls = <<>>
  /\ hasToolCalls = FALSE
  /\ toolIdx = 0
  /\ toolInFlight = None
  /\ requestMessages = <<>>
  /\ requests = 0
  /\ stream = <<>>
  /\ tail = <<>>
  /\ pos = 0
  /\ buffer = <<>>
  /\ accumulatedToolCalls = <<>>
  /\ events = <<>>
  /\ readerLocked = FALSE
  /\ lastError = None
  /\ turnBase = <<>>

\* ------------------------------------------------------------------------
\* CLI.run: the input loop
\* ------------------------------------------------------------------------
\* getUserInput resolves with the trimmed answer.  Text is read only while
\* the session may still issue a request.
ReadLine ==
  /\ state = "AwaitingInput"
  /\ \E raw \in InputLines :
       /\ (StartsWithSlash(Trim(raw)) \/ Trim(raw) = <<>> \/ requests < MaxRequests)
       /\ input' = Trim(raw)
  /\ state' = "HandlingInput"
  /\ turnBase' = history
  /\ UNCHANGED <<history, rlPaused, depth, toolIdx, toolInFlight,
                 requestMessages, requests, lastError>>
  /\ UNCHANGED localVars
  /\ UNCHANGED decoderVars

\* if (!input) continue
InputEmpty ==
  /\ state = "HandlingInput"
  /\ Join(input) = ""
  /\ state' = "AwaitingInput"
  /\ UNCHANGED cliVars
  /\ UNCHANGED localVars
  /\ UNCHANGED decoderVars

\* handleCommand returns true: close and leave the loop
CommandExit ==
  /\ state = "HandlingInput"
  /\ Join(input) \in {"/exit", "/quit"}
  /\ state' = "Exited"
  /\ UNCHANGED cliVars
  /\ UNCHANGED localVars
  /\ UNCHANGED decoderVars

\* CommandClear as it would be if clear() left the messages in place.
CommandClearKeepsHistory ==
  /\ state = "HandlingInput"
  /\ Join(input) = "/clear"
  /\ state' = "AwaitingInput"
  /\ UNCHANGED cliVars
  /\ UNCHANGED localVars
  /\ UNCHANGED decoderVars

\* handleCommand clears the history; run skips the line
CommandClear ==
  /\ state = "HandlingInput"
  /\ Join(input) = "/clear"
  /\ history' = <<>>
  /\ state' = "AwaitingInput"
  /\ UNCHANGED <<input, rlPaused, depth, toolIdx, toolInFlight,
                 requestMessages, requests, lastError, turnBase>>
  /\ UNCHANGED localVars
  /\ UNCHANGED decoderVars

\* handleCommand prints the help; run skips the line
CommandHelp ==
  /\ state = "HandlingInput"
  /\ Join(input) = "/help"
  /\ state' = "AwaitingInput"
  /\ UNCHANGED cliVars
  /\ UNCHANGED localVars
  /\ UNCHANGED decoderVars

\* handleCommand matches nothing; run skips every line starting with "/"
SlashSkipped ==
  /\ state = "HandlingInput"
  /\ Join(input) \notin {"", "/exit", "/quit", "/clear", "/help"}
  /\ StartsWithSlash(input)
  /\ state' = "AwaitingInput"
  /\ UNCHANGED cliVars
  /\ UNCHANGED localVars
  /\ UNCHANGED decoderVars

\* The entry of streamResponse up to the fetch of streamChat: readline is
\* paused, the locals are fresh and the request carries a copy of the
\* history h.
IssueRequest(h) ==
  /\ state' = "Requesting"
  /\ rlPaused' = TRUE
  /\ depth' = depth + 1
  /\ NoLocals
  /\ toolIdx' = 0
  /\ toolInFlight' = None
  /\ requestMessages' = h
  /\ requests' = requests + 1
  /\ NoStream

\* SubmitText as it would be if the response were requested before the
\* user message is added.
SubmitTextRequestsFirst ==
  /\ state = "HandlingInput"
  /\ Join(input) \notin {"", "/exit", "/quit", "/clear", "/help"}
  /\ ~StartsWithSlash(input)
  /\ requests < MaxRequests
  /\ IssueRequest(history)
  /\ history' = addMessage(history, "user", Some(Join(input)), None, None, None)
  /\ lastError' = None
  /\ UNCHANGED <<input, turnBase>>

\* The line is conversation text: add the user message, stream the response
SubmitText ==
  /\ state = "HandlingInput"
  /\ Join(input) \notin {"", "/exit", "/quit", "/clear", "/help"}
  /\ ~StartsWithSlash(input)
  /\ requests < MaxRequests
  /\ history' = addMessage(history, "user", Some(Join(input)), None, None, None)
  /\ IssueRequest(history')
  /\ lastError' = None
  /\ UNCHANGED <<input, turnBase>>

\* ------------------------------------------------------------------------
\* CLI.streamResponse: leaving a round
\* ------------------------------------------------------------------------
\* The finally blocks of every nested streamResponse resume readline and
\* the call returns to the input loop.
ReturnToInput ==
  /\ state' = "AwaitingInput"
  /\ rlPaused' = FALSE
  /\ depth' = 0
  /\ NoLocals
  /\ toolIdx' = 0
  /\ toolInFlight' = None
  /\ NoStream

\* Caught as it would be if streamResponse let the error escape to the
\* handler of cli.run(), which exits the process.
CaughtEscapes(error) ==
  /\ lastError' = Some(error)
  /\ state' = "Exited"
  /\ rlPaused' = FALSE
  /\ depth' = 0
  /\ NoLocals
  /\ toolIdx' = 0
  /\ toolInFlight' = None
  /\ NoStream
  /\ UNCHANGED <<input, history, requestMessages, requests, turnBase>>

\* Caught as it would be if the catch kept the partial response as an
\* assistant message.
CaughtAppendsPartial(error) ==
  /\ lastError' = Some(error)
  /\ ReturnToInput
  /\ history' = addMessage(history, "assistant", OrNull(fullResponse),
                           None, None, None)
  /\ UNCHANGED <<input, requestMessages, requests, turnBase>>

\* catch (error): report it; nothing is added to the history
Caught(error) ==
  /\ lastError' = Some(error)
  /\ ReturnToInput
  /\ UNCHANGED <<input, history, requestMessages, requests, turnBase>>

\* ------------------------------------------------------------------------
\* FireworksClient.streamChat: the response arrives
\* ------------------------------------------------------------------------
\* !response.ok
ResponseError ==
  /\ state = "Requesting"
  /\ Caught(APIError)

\* response.body has no reader
ResponseNoBody ==
  /\ state = "Requesting"
  /\ Caught(NoBodyError)

\* The reader is acquired.  A body that calls tools arrives only while the
\* session may still issue the follow-up request.
ResponseOk ==
  /\ state = "Requesting"
  /\ \E ls \in TextStreams \cup ToolStreams :
       /\ (ls \in ToolStreams => requests < MaxRequests)
       /\ stream' = ls
  /\ tail' = <<>>
  /\ pos' = 0
  /\ buffer' = <<>>
  /\ accumulatedToolCalls' = <<>>
  /\ events' = <<>>
  /\ readerLocked' = TRUE
  /\ state' = "Streaming"
  /\ UNCHANGED cliVars
  /\ UNCHANGED localVars

\* Consume as it would be if a fragment replaced the response so far.
ConsumeOverwrites(loc, ev) ==
  IF ev.type = "text"
  THEN [loc EXCEPT !.fullResponse = ev.text]
  ELSE [loc EXCEPT !.toolCalls = ev.toolCalls, !.hasToolCalls = TRUE]

\* The body of the for await loop of streamResponse, for one yielded event.
Consume(loc, ev) ==
  IF ev.type = "text"
  THEN [loc EXCEPT !.fullResponse = loc.fullResponse \o ev.text]
  ELSE [loc EXCEPT !.toolCalls = ev.toolCalls, !.hasToolCalls = TRUE]

RECURSIVE ConsumeAll(_, _)
ConsumeAll(loc, evs) ==
  IF evs = <<>> THEN loc ELSE ConsumeAll(Consume(loc, Head(evs)), Tail(evs))

\* Deliver as it would be if the reader lock were released only after the
\* read loop, outside a finally: the return at [DONE] keeps the lock.
DeliverKeepsLockOnReturn(r) ==
  LET loc == ConsumeAll([fullResponse |-> fullResponse, toolCalls |-> toolCalls,
                         hasToolCalls |-> hasToolCalls],
                        SubSeq(r.out, Len(events) + 1, Len(r.out)))
  IN /\ buffer' = r.buffer
     /\ accumulatedToolCalls' = r.acc
     /\ events' = r.out
     /\ fullResponse' = loc.fullResponse
     /\ toolCalls' = loc.toolCalls
     /\ hasToolCalls' = loc.hasToolCalls
     /\ readerLocked' = (~r.done \/ pos < Len(Body))
     /\ state' = IF r.done THEN "StreamEnded" ELSE "Streaming"

\* The decoder moved from events to r.out; streamResponse consumed what is new.
Deliver(r) ==
  LET loc == ConsumeAll([fullResponse |-> fullResponse, toolCalls |-> toolCalls,
                         hasToolCalls |-> hasToolCalls],
                        SubSeq(r.out, Len(events) + 1, Len(r.out)))
  IN /\ buffer' = r.buffer
     /\ accumulatedToolCalls' = r.acc
     /\ events' = r.out
     /\ fullResponse' = loc.fullResponse
     /\ toolCalls' = loc.toolCalls
     /\ hasToolCalls' = loc.hasToolCalls
     /\ readerLocked' = ~r.done
     /\ state' = IF r.done THEN "StreamEnded" ELSE "Streaming"

DecoderState ==
  [buffer |-> buffer, acc |-> accumulatedToolCalls, out |-> events, done |-> FALSE]

\* reader.read() delivers the next units of the body
ReadChunk ==
  /\ state = "Streaming"
  /\ \E n \in 0..MaxChunk :
       /\ pos + n <= Len(Body)
       /\ pos' = pos + n
       /\ Deliver(DecodeChunk(DecoderState, SubSeq(Body, pos + 1, pos + n)))
  /\ UNCHANGED <<stream, tail>>
  /\ UNCHANGED cliVars

\* reader.read() reports done
ReadClose ==
  /\ state = "Streaming"
  /\ pos = Len(Body)
  /\ Deliver(DecodeClose(DecoderState))
  /\ UNCHANGED <<stream, tail, pos>>
  /\ UNCHANGED cliVars

\* reader.read() rejects: the lock is released and the error reaches the
\* catch of streamResponse
ReadError ==
  /\ state = "Streaming"
  /\ Caught(ReadFailure)

\* ------------------------------------------------------------------------
\* CLI.streamResponse: after the stream
\* ------------------------------------------------------------------------
\* No tool calls: add the assistant message and return
EndRound ==
  /\ state = "StreamEnded"
  /\ ~(hasToolCalls /\ Len(toolCalls) > 0)
  /\ history' = addMessage(history, "assistant", OrNull(fullResponse),
                           IF Len(toolCalls) > 0 THEN Some(toolCalls) ELSE None,
                           None, None)
  /\ ReturnToInput
  /\ UNCHANGED <<input, requestMessages, requests, lastError, turnBase>>

\* BeginTools as it would be if readline were resumed when the stream of a
\* round ends, before the tools run.
BeginToolsResumes ==
  /\ state = "StreamEnded"
  /\ hasToolCalls /\ Len(toolCalls) > 0
  /\ history' = addMessage(history, "assistant", OrNull(fullResponse),
                           Some(toolCalls), None, None)
  /\ state' = "ExecutingTools"
  /\ toolIdx' = 1
  /\ rlPaused' = FALSE
  /\ NoStream
  /\ UNCHANGED <<input, depth, toolInFlight, requestMessages,
                 requests, lastError, turnBase>>
  /\ UNCHANGED localVars

\* Tool calls: add the assistant message that declares them
BeginTools ==
  /\ state = "StreamEnded"
  /\ hasToolCalls /\ Len(toolCalls) > 0
  /\ history' = addMessage(history, "assistant", OrNull(fullResponse),
                           Some(toolCalls), None, None)
  /\ state' = "ExecutingTools"
  /\ toolIdx' = 1
  /\ NoStream
  /\ UNCHANGED <<input, rlPaused, depth, toolInFlight, requestMessages,
                 requests, lastError, turnBase>>
  /\ UNCHANGED localVars

\* The tool message of the current call is added to give h; the loop goes
\* on, or the follow-up round starts.
ToolDone(h) ==
  /\ history' = h
  /\ IF toolIdx < Len(toolCalls)
     THEN /\ toolIdx' = toolIdx + 1
          /\ toolInFlight' = None
          /\ UNCHANGED <<state, rlPaused, depth, requestMessages, requests>>
          /\ UNCHANGED localVars
          /\ UNCHANGED decoderVars
     ELSE IssueRequest(h)
  /\ UNCHANGED <<input, lastError, turnBase>>

\* ExecuteTool as it would be if webSearch were not awaited: the loop goes on
\* (and the follow-up request is issued) while the search is still running.
ExecuteToolNoAwait ==
  /\ state = "ExecutingTools"
  /\ LET toolCall == toolCalls[toolIdx]
         functionName == toolCall.function.name
         args == ParseArguments(toolCall.function.arguments)
     IN IF functionName = "web_search"
        THEN IF args.kind = "null"
             THEN Caught(NullArgsError)
             ELSE /\ toolInFlight' = Some(args.query)
                  /\ history' = addMessage(history, "tool", Some("[object Promise]"),
                                           None, Some(toolCall.id), Some(functionName))
                  /\ IF toolIdx < Len(toolCalls)
                     THEN /\ toolIdx' = toolIdx + 1
                          /\ UNCHANGED <<state, rlPaused, depth, requestMessages,
                                         requests>>
                          /\ UNCHANGED localVars
                          /\ UNCHANGED decoderVars
                     ELSE /\ state' = "Requesting"
                          /\ rlPaused' = TRUE
                          /\ depth' = depth + 1
                          /\ NoLocals
                          /\ toolIdx' = 0
                          /\ requestMessages' = history'
                          /\ requests' = requests + 1
                          /\ NoStream
                  /\ UNCHANGED <<input, lastError, turnBase>>
        ELSE ToolDone(addMessage(history, "tool",
                                 Some("Unknown tool: " \o functionName),
                                 None, Some(toolCall.id), Some(functionName)))

\* One iteration of the loop over toolCalls, up to the await of webSearch
ExecuteTool ==
  /\ state = "ExecutingTools"
  /\ toolInFlight = None
  /\ LET toolCall == toolCalls[toolIdx]
         functionName == toolCall.function.name
         args == ParseArguments(toolCall.function.arguments)
     IN IF functionName = "web_search"
        THEN IF args.kind = "null"
             THEN Caught(NullArgsError)
             ELSE /\ toolInFlight' = Some(args.query)
                  /\ UNCHANGED <<state, input, history, rlPaused, depth, toolIdx,
                                 requestMessages, requests, lastError, turnBase>>
                  /\ UNCHANGED localVars
                  /\ UNCHANGED decoderVars
        ELSE ToolDone(addMessage(history, "tool",
                                 Some("Unknown tool: " \o functionName),
                                 None, Some(toolCall.id), Some(functionName)))

\* ToolReturn as it would be if the result of webSearch were dropped and the
\* iteration of the loop started again.
ToolReturnLost ==
  /\ state = "ExecutingTools"
  /\ toolInFlight # None
  /\ toolInFlight' = None
  /\ UNCHANGED <<state, input, history, rlPaused, depth, toolIdx,
                 requestMessages, requests, lastError, turnBase>>
  /\ UNCHANGED localVars
  /\ UNCHANGED decoderVars

\* webSearch resolves
ToolReturn ==
  /\ state = "ExecutingTools"
  /\ toolInFlight # None
  /\ \E result \in WebSearchResults :
       ToolDone(addMessage(history, "tool", Some(result), None,
                           Some(toolCalls[toolIdx].id),
                           Some(toolCalls[toolIdx].function.name)))

\* ------------------------------------------------------------------------
\* Specifications
\* ------------------------------------------------------------------------
Next ==
  \/ ReadLine
  \/ InputEmpty
  \/ CommandExit
  \/ CommandClear
  \/ CommandHelp
  \/ SlashSkipped
  \/ SubmitText
  \/ ResponseError
  \/ ResponseNoBody
  \/ ResponseOk
  \/ ReadChunk
  \/ ReadClose
  \/ ReadError
  \/ EndRound
  \/ BeginTools
  \/ ExecuteTool
  \/ ToolReturn

Spec == Init /\ [][Next]_vars

\* The decoder on its own: the first response of a session has arrived, with
\* any body of at most MaxLines lines, and is read to its end.
InitDecoder ==
  /\ state = "Streaming"
  /\ input = <<"hello">>
  /\ history = addMessage(<<>>, "user", Some("hello"), None, None, None)
  /\ rlPaused = TRUE
  /\ depth = 1
  /\ fullResponse = ""
  /\ toolCalls = <<>>
  /\ hasToolCalls = FALSE
  /\ toolIdx = 0
  /\ toolInFlight = None
  /\ requestMessages = history
  /\ requests = 1
  /\ stream \in DecoderStreams
  /\ tail \in DecoderTails
  /\ pos = 0
  /\ buffer = <<>>
  /\ accumulatedToolCalls = <<>>
  /\ events = <<>>
  /\ readerLocked = TRUE
  /\ lastError = None
  /\ turnBase = <<>>

NextDecoder ==
  \/ ReadChunk
  \/ ReadClose

SpecDecoder == InitDecoder /\ [][NextDecoder]_vars

\* The steps of a round that the runtime takes on its own once the user's
\* text has been submitted: the fetch settles, reader.read() settles,
\* the code after the for await loop runs, webSearch settles.
RoundStep ==
  \/ ResponseError
  \/ ResponseNoBody
  \/ ResponseOk
  \/ ReadError
  \/ ReadClose
  \/ ReadChunk
  \/ EndRound
  \/ BeginTools
  \/ ExecuteTool
  \/ ToolReturn

\* The whole CLI when every awaited promise of a round settles: every stream
\* ends and every tool execution returns.
SpecFair == Init /\ [][Next]_vars /\ WF_vars(RoundStep)

TypeOK ==
  /\ state \in {"AwaitingInput", "HandlingInput", "Requesting", "Streaming",
                "StreamEnded", "ExecutingTools", "Exited"}
  /\ rlPaused \in BOOLEAN
  /\ readerLocked \in BOOLEAN
  /\ requests \in 0..MaxRequests
  /\ pos \in 0..Len(Body)

\* ------------------------------------------------------------------------
\* Properties of the decoder (checked under SpecDecoder)
\* ------------------------------------------------------------------------
\* What streamChat yields when the units arrive as one chunk before the
\* transport closes.
DecodeUnsplit(units) ==
  LET r == DecodeChunk(DecoderStart, units)
  IN IF r.done THEN r.out ELSE DecodeClose(r).out

IsPrefix(a, b) == Len(a) <= Len(b) /\ a = SubSeq(b, 1, Len(a))

Batches == {i \in 1..Len(events) : events[i].type = "toolCalls"}

\* C1: however the body is split into chunks, streamChat yields the same
\* text fragments and the same trailing tool-call batch as for the body
\* delivered in one chunk; while chunks still arrive it has yielded a prefix
\* of them.
ChunkBoundaryInsensitive ==
  /\ state = "StreamEnded" => events = DecodeUnsplit(Body)
  /\ state = "Streaming" => IsPrefix(events, DecodeUnsplit(Body))

\* Every data line is longer than a chunk, so each line of this ended stream
\* was split: two text fragments and a batch came out of it.
ChunkBoundaryWitness ==
  /\ state = "StreamEnded"
  /\ MaxChunk < Len(DoneLine) + 1
  /\ Len(events) = 3
  /\ events[1].type = "text"
  /\ events[2].type = "text"
  /\ events[3].type = "toolCalls"

\* C4: no tool call of a yielded batch has an empty name, i.e. a record
\* that never received a name is not materialized.
NamelessNeverMaterialized ==
  \A i \in Batches :
    \A k \in 1..Len(events[i].toolCalls) :
      events[i].toolCalls[k].function.name # ""

\* A data line whose payload does not parse as JSON.
IsMalformed(line) ==
  /\ Len(line) >= 2
  /\ line[1] = "data"
  /\ line[2] = ": "
  /\ SubSeq(line, 3, Len(line)) # DoneToken
  /\ ~JSONParse(SubSeq(line, 3, Len(line))).ok

RECURSIVE WithoutMalformed(_)
WithoutMalformed(ls) ==
  IF ls = <<>> THEN <<>>
  ELSE IF IsMalformed(Head(ls)) THEN WithoutMalformed(Tail(ls))
  ELSE <<Head(ls)>> \o WithoutMalformed(Tail(ls))

\* C6: a data line whose payload fails to parse yields nothing and ends
\* nothing: the stream yields what the same body without its malformed lines
\* yields.
MalformedLineSkipped ==
  state = "StreamEnded" =>
    events = DecodeUnsplit(BodyUnits(WithoutMalformed(stream), tail))

\* A malformed line came first, then a line with text and a line with
\* tool-call deltas; both were decoded.
MalformedLineWitness ==
  /\ state = "StreamEnded"
  /\ Len(stream) = 3
  /\ IsMalformed(stream[1])
  /\ stream[2] = DataLine("hi")
  /\ stream[3] = DataLine("open0")
  /\ Len(events) = 2
  /\ events[1] = TextEvent("Hi")
  /\ events[2].type = "toolCalls"

\* The tool-call deltas of the lines that are decoded: the newline-terminated
\* data lines before the first [DONE] line whose payload parses.
RECURSIVE ReceivedDeltas(_)
ReceivedDeltas(ls) ==
  IF ls = <<>> THEN <<>>
  ELSE IF Head(ls) = DoneLine THEN <<>>
  ELSE IF Len(Head(ls)) = 5 /\ Head(ls)[1] = "data" /\ Head(ls)[2] = ": "
          /\ Head(ls)[3] = "{" /\ Head(ls)[5] = "}"
          /\ Head(ls)[4] \in DOMAIN Bodies
       THEN Bodies[Head(ls)[4]].tool_calls \o ReceivedDeltas(Tail(ls))
       ELSE ReceivedDeltas(Tail(ls))

RECURSIVE ArgumentsFor(_, _)
ArgumentsFor(ds, idx) ==
  IF ds = <<>> THEN ""
  ELSE IF Head(ds).index = <<idx>>
       THEN Head(ds).arguments \o ArgumentsFor(Tail(ds), idx)
       ELSE ArgumentsFor(Tail(ds), idx)

CompleteRecords ==
  SelectSeq(accumulatedToolCalls, LAMBDA tc : tc.id # None)

\* C7: the arguments of every materialized tool call are the concatenation,
\* in arrival order, of the argument deltas received for its index.
ArgumentsConcatenated ==
  state = "StreamEnded" =>
    \A i \in Batches :
      /\ Len(events[i].toolCalls) = Len(CompleteRecords)
      /\ \A k \in 1..Len(CompleteRecords) :
           events[i].toolCalls[k].function.arguments =
             ArgumentsFor(ReceivedDeltas(stream), CompleteRecords[k].index)

\* The arguments arrived in two deltas after the delta with the id and the
\* name (whose own argument delta is empty).
ArgumentsWitness ==
  /\ state = "StreamEnded"
  /\ stream = <<DataLine("open0"), DataLine("argA0"), DataLine("argB0")>>
  /\ Len(events) = 1
  /\ events[1].type = "toolCalls"
  /\ events[1].toolCalls[1].function.arguments = "{\"query\":\"x\"}"

RECURSIVE Insert(_, _)
Insert(tc, sorted) ==
  IF sorted = <<>> THEN <<tc>>
  ELSE IF tc.index < Head(sorted).index THEN <<tc>> \o sorted
  ELSE <<Head(sorted)>> \o Insert(tc, Tail(sorted))

RECURSIVE SortedByIndex(_)
SortedByIndex(acc) ==
  IF acc = <<>> THEN <<>> ELSE Insert(Head(acc), SortedByIndex(Tail(acc)))

\* C8: the yielded batch lists the completed tool calls by ascending stream
\* index.
BatchOrderedByIndex ==
  state = "StreamEnded" =>
    \A i \in Batches :
      events[i].toolCalls =
        [k \in 1..Len(CompleteRecords) |->
           [id |-> SortedByIndex(CompleteRecords)[k].id[1],
            type |-> "function",
            function |->
              [name |-> SortedByIndex(CompleteRecords)[k].name,
               arguments |-> SortedByIndex(CompleteRecords)[k].arguments]]]

\* ------------------------------------------------------------------------
\* Properties of the conversation loop (checked under Spec)
\* ------------------------------------------------------------------------
UserMessage(text) ==
  [role |-> "user", content |-> <<text>>, tool_calls |-> <<>>,
   tool_call_id |-> <<>>, name |-> <<>>]

AssistantText(text) ==
  [role |-> "assistant", content |-> IF text = "" THEN <<>> ELSE <<text>>,
   tool_calls |-> <<>>, tool_call_id |-> <<>>, name |-> <<>>]

DeclaresTools(m) == m.role = "assistant" /\ m.tool_calls # <<>>

\* C2: a round that yields a tool-call batch appends the assistant message
\* with the calls and then one tool message per call, in the order of the
\* batch, each with the id and the name of its call, before the follow-up
\* request is issued: whenever a request is issued or input is awaited,
\* every declared batch in the history is followed by exactly these messages.
ToolRoundAppended ==
  state \in {"AwaitingInput", "Requesting"} =>
    \A i \in 1..Len(history) :
      DeclaresTools(history[i]) =>
        LET tcs == history[i].tool_calls[1] IN
        /\ i + Len(tcs) <= Len(history)
        /\ \A k \in 1..Len(tcs) :
             /\ history[i + k].role = "tool"
             /\ history[i + k].tool_call_id = <<tcs[k].id>>
             /\ history[i + k].name = <<tcs[k].function.name>>
        /\ i + Len(tcs) < Len(history) =>
             history[i + Len(tcs) + 1].role # "tool"

\* The tool messages that directly follow message i.
Answers(i) ==
  {j \in (i + 1)..Len(history) :
     \A m \in (i + 1)..j : history[m].role = "tool"}

\* C3: whenever input is awaited the history satisfies the message
\* invariant: a tool message follows, over tool messages only, an assistant
\* message that declared the call it answers, and every declared call is
\* answered exactly once.
MessageInvariant ==
  state = "AwaitingInput" =>
    /\ \A j \in 1..Len(history) :
         history[j].role = "tool" =>
           \E i \in 1..(j - 1) :
             /\ DeclaresTools(history[i])
             /\ j \in Answers(i)
             /\ history[j].tool_call_id # <<>>
             /\ \E k \in 1..Len(history[i].tool_calls[1]) :
                  history[i].tool_calls[1][k].id = history[j].tool_call_id[1]
    /\ \A i \in 1..Len(history) :
         DeclaresTools(history[i]) =>
           \A k \in 1..Len(history[i].tool_calls[1]) :
             Cardinality({j \in Answers(i) :
                            history[j].tool_call_id =
                              <<history[i].tool_calls[1][k].id>>}) = 1

RequestFails ==
  /\ state = "Requesting"
  /\ state' = "AwaitingInput"
  /\ lastError' = <<APIError>>

\* C5 as stated: after a completion request fails with a non-success
\* status, the history is what it was before the user submitted the text of
\* the turn.
FailedTurnRestoresHistory ==
  [][RequestFails => history' = turnBase]_vars

\* C5 as amended: the failed request adds nothing to the history, which
\* stays equal to the messages sent with that request; for the first request
\* of a turn that is the history before the turn followed by the user
\* message of the turn.
FailedRequestAddsNothing ==
  [][RequestFails =>
       /\ history' = history
       /\ history' = requestMessages
       /\ depth = 1 => history' = Append(turnBase, UserMessage(Join(input)))]_vars

\* The first request of a turn failed: the user message of the turn is the
\* last message of the history.
FailedRequestWitness ==
  /\ state = "AwaitingInput"
  /\ lastError = <<APIError>>
  /\ history = Append(turnBase, UserMessage("hello"))

RECURSIVE JoinTexts(_)
JoinTexts(evs) ==
  IF evs = <<>> THEN ""
  ELSE (IF Head(evs).type = "text" THEN Head(evs).text ELSE "")
         \o JoinTexts(Tail(evs))

\* C9: when the stream of a round ends and no tool-call batch was yielded,
\* exactly one assistant message is appended, without tool calls, whose
\* content is the concatenation of the fragments of the round (absent when
\* there was none), and the turn ends with readline resumed.
PlainRoundAppendsOnce ==
  [][(state = "StreamEnded" /\ Batches = {}) =>
       /\ history' = Append(history, AssistantText(JoinTexts(events)))
       /\ state' = "AwaitingInput"
       /\ rlPaused' = FALSE]_vars

\* 'hello' answered by 'Hi', ' there', [DONE].
PlainRoundWitness ==
  /\ state = "AwaitingInput"
  /\ history = <<UserMessage("hello"), AssistantText("Hi there")>>

IsCommand(text) == text \in {"/exit", "/quit", "/clear", "/help"}

AtPrompt == {"AwaitingInput", "HandlingInput"}

\* C11: /clear leaves the history empty, starts no round and reports no
\* error, whether or not the history was empty before; until the next turn
\* nothing is added to the history; and the request of a turn that starts
\* from an empty history carries only the user message of that turn.
ClearEmptiesHistory ==
  [][/\ (state = "HandlingInput" /\ Join(input) = "/clear") =>
          /\ history' = <<>>
          /\ state' = "AwaitingInput"
          /\ requests' = requests
          /\ lastError' = lastError
     /\ (state \in AtPrompt /\ state' \in AtPrompt) =>
          history' \in {history, <<>>}
     /\ (state = "HandlingInput" /\ history = <<>> /\ state' = "Requesting") =>
          requestMessages' = <<UserMessage(Join(input))>>]_vars

\* The second request of a session carries one message only: the history
\* of the first turn was cleared before the turn of this request.
ClearWitness ==
  /\ state = "Requesting"
  /\ requests = 2
  /\ requestMessages = <<UserMessage("hello")>>
  /\ history = requestMessages

\* C12: one streamed response yields at most one tool-call batch, the batch
\* is the last event, and nothing of the tool calls is yielded while the
\* stream is still being read.
BatchOnceAtEnd ==
  /\ Cardinality(Batches) <= 1
  /\ \A i \in Batches : i = Len(events)
  /\ state = "Streaming" => Batches = {}

\* Text, then the deltas of one call on two lines, then [DONE]: the batch
\* came once, after the text.
BatchOnceWitness ==
  /\ state = "StreamEnded"
  /\ stream = <<DataLine("hi"), DataLine("open0"), DataLine("argA0")>>
  /\ tail = DoneLine
  /\ Len(events) = 2
  /\ events[1] = TextEvent("Hi")
  /\ events[2].type = "toolCalls"

InRound == {"Requesting", "Streaming", "StreamEnded", "ExecutingTools"}

\* C13: whenever a round reports a failure, in the first round of a turn or
\* in a follow-up round, the process has not exited, readline is resumed and
\* the loop awaits the next input.
FailureCaught ==
  [][(state \in InRound /\ lastError' # lastError) =>
       /\ lastError' \in {<<APIError>>, <<NoBodyError>>, <<ReadFailure>>,
                          <<NullArgsError>>}
       /\ state' = "AwaitingInput"
       /\ rlPaused' = FALSE]_vars

\* A read error in the follow-up round after a tool call: the history keeps
\* the tool round and the loop is back at the prompt.
FailureCaughtWitness ==
  /\ state = "AwaitingInput"
  /\ lastError = <<ReadFailure>>
  /\ rlPaused = FALSE
  /\ Len(history) >= 3
  /\ history[Len(history)].role = "tool"

\* What is in flight: the fetch of a completion request, the body of a
\* response being read, a webSearch being awaited.
InFlight ==
  (IF state = "Requesting" THEN 1 ELSE 0)
  + (IF readerLocked THEN 1 ELSE 0)
  + (IF toolInFlight # <<>> THEN 1 ELSE 0)

\* C14: at most one completion request, response stream or tool execution
\* is in flight; a follow-up request is issued only when the stream of the
\* round has ended and the last tool call of the batch has returned, each
\* call of the batch having its tool message in the request.
OneInFlight ==
  /\ [](InFlight <= 1)
  /\ [][(state = "ExecutingTools" /\ state' = "Requesting") =>
          /\ ~readerLocked
          /\ toolIdx = Len(toolCalls)
          /\ Len(requestMessages') > Len(toolCalls)
          /\ \A k \in 1..Len(toolCalls) :
               LET m == requestMessages'[Len(requestMessages') - Len(toolCalls) + k]
               IN m.role = "tool" /\ m.tool_call_id = <<toolCalls[k].id>>
          /\ toolInFlight' = <<>>]_vars

\* The second call of a batch is being awaited after the first returned;
\* nothing else is in flight.
OneInFlightWitness ==
  /\ state = "ExecutingTools"
  /\ Len(toolCalls) = 2
  /\ toolIdx = 2
  /\ toolInFlight # <<>>
  /\ readerLocked = FALSE
  /\ history[Len(history)].role = "tool"

\* C15: while a turn is in a round, nested rounds and tool execution
\* included, readline stays paused and no line is read; it is resumed only
\* by the step that brings the turn back to the prompt.
InputSuspended ==
  /\ [](state \in InRound => (rlPaused /\ depth >= 1))
  /\ [][(state \in InRound) => (input' = input)]_vars
  /\ [][(rlPaused /\ ~rlPaused') => (state' = "AwaitingInput" /\ depth' = 0)]_vars

\* A tool runs in the second round of a turn with readline still paused.
InputSuspendedWitness ==
  /\ state = "ExecutingTools"
  /\ depth = 2
  /\ toolInFlight # <<>>
  /\ rlPaused

\* C16: whatever the name and the argument text of a recorded tool call, the
\* tool loop does not abort the turn: each of its steps either starts the
\* search or appends the one tool message of the current call, and the loop
\* ends in the follow-up request.
ToolCallNeverAborts ==
  [][(state = "ExecutingTools") =>
       /\ state' \in {"ExecutingTools", "Requesting"}
       /\ lastError' = <<>>
       /\ \/ history' = history
          \/ /\ Len(history') = Len(history) + 1
             /\ history'[Len(history')].role = "tool"
             /\ history'[Len(history')].tool_call_id = <<toolCalls[toolIdx].id>>]_vars

HasDoneLine == \E i \in 1..Len(stream) : stream[i] = DoneLine

UpToDone ==
  LET i == CHOOSE k \in 1..Len(stream) :
             stream[k] = DoneLine /\ \A j \in 1..(k - 1) : stream[j] # DoneLine
  IN SubSeq(stream, 1, i)

UnterminatedLineIgnored ==
  state = "StreamEnded" =>
    /\ events = DecodeUnsplit(BodyUnits(stream, <<>>))
    /\ accumulatedToolCalls = ApplyDeltas(<<>>, ReceivedDeltas(stream))
    /\ ~HasDoneLine => pos = Len(Body) /\ buffer = tail

\* One terminated text line and an unterminated copy of it: the transport
\* closed with the copy still in the buffer and one fragment yielded.
UnterminatedLineWitness ==
  /\ state = "StreamEnded"
  /\ stream = <<DataLine("hi")>>
  /\ tail = DataLine("hi")
  /\ pos = Len(Body)
  /\ buffer = DataLine("hi")
  /\ events = <<TextEvent("Hi")>>

\* The phases of a round in which the response is requested and read.
InStreaming == {"Requesting", "Streaming", "StreamEnded"}

ToolRoundsOf(h) == Cardinality({i \in 1..Len(h) : DeclaresTools(h[i])})

\* C19: when every stream ends and every tool execution returns, a turn goes
\* AwaitingInput -> Streaming -> (ExecutingTools -> Streaming)* ->
\* AwaitingInput.  A round in progress leads to AwaitingInput (the modelled
\* server stops calling tools after MaxRequests requests, so every turn gets a
\* round without tool calls or a failing round); streaming is left only for
\* ExecutingTools or AwaitingInput, and for ExecutingTools only when a
\* non-empty batch was recorded; ExecutingTools is left only for the
\* follow-up request, one level deeper whatever the depth, or for
\* AwaitingInput on a failure.
TurnReturnsToInput ==
  /\ (state \in InRound) ~> (state = "AwaitingInput")
  /\ [][/\ (state \in InStreaming /\ state' \notin InStreaming) =>
            state' \in {"ExecutingTools", "AwaitingInput"}
        /\ (state # "ExecutingTools" /\ state' = "ExecutingTools") =>
            /\ state = "StreamEnded"
            /\ \E i \in 1..Len(events) :
                 /\ events[i].type = "toolCalls"
                 /\ events[i].toolCalls # <<>>
                 /\ toolCalls = events[i].toolCalls
        /\ (state = "ExecutingTools" /\ state' # "ExecutingTools") =>
            \/ state' = "Requesting" /\ depth' = depth + 1 /\ lastError' = None
            \/ state' = "AwaitingInput" /\ lastError' # None]_vars

\* One turn of MaxRequests rounds is over: every round but the last called
\* tools, the last one answered in text, and input is awaited again.
TurnReturnsWitness ==
  /\ state = "AwaitingInput"
  /\ lastError = None
  /\ requests = MaxRequests
  /\ Cardinality({i \in 1..Len(history) : history[i].role = "user"}) = 1
  /\ ToolRoundsOf(history) = MaxRequests - 1
  /\ history[Len(history)] = AssistantText("Hi there")

====
